---- MODULE Spec2Model ----
(***************************************************************************)
(* Model of fcc-schematics.py: a linear scan-then-fetch pipeline that      *)
(* scans one filing page for exhibit links marked "Adobe Acrobat PDF",     *)
(* resolves the PDF URL on each exhibit page and downloads it.             *)
(*                                                                         *)
(* Strings are sequences of tokens.  A token is an atomic piece of text    *)
(* (one character, one word, one run of digits, one extension).  Python's  *)
(* str operations (lower, strip, in, endswith, re.sub, urljoin, splitext)  *)
(* are computed on these sequences.                                        *)
(***************************************************************************)
EXTENDS Integers, Sequences, FiniteSets, TLC

\* ------------------------------------------------------------------ bounds

\* Longest title given to slugify in the slugify specification.
MaxTitleLen == 3
\* Largest explicit maxlen argument given to slugify (besides the default).
MaxLenArg == 3
\* Most filler nodes between the anchor and the marker in a scanned page.
MaxFill == 13
\* Number of times the program is run over the same output directory.
MaxRuns == 2
\* Largest number of elements of an exhibit page given to the resolver.
MaxPageNodes == 3
\* Largest number of links of a root page given to the scanner.
MaxLinks == 3

\* ------------------------------------------------------- sequence helpers

Min(a, b) == IF a < b THEN a ELSE b

Range(s) == { s[i] : i \in 1..Len(s) }

\* s[:n] for n >= 0
Take(s, n) == SubSeq(s, 1, Min(n, Len(s)))

\* s[n:] (0-based n), i.e. s without its first n elements
Drop(s, n) == SubSeq(s, n + 1, Len(s))

\* sub in s
Contains(s, sub) ==
  \E i \in 0..(Len(s) - Len(sub)) : SubSeq(s, i + 1, i + Len(sub)) = sub

\* s.endswith(suf)
EndsWith(s, suf) ==
  /\ Len(suf) <= Len(s)
  /\ SubSeq(s, Len(s) - Len(suf) + 1, Len(s)) = suf

RECURSIVE Flatten(_)
Flatten(ss) == IF ss = <<>> THEN <<>> ELSE Head(ss) \o Flatten(Tail(ss))

\* sep.join(ss)
RECURSIVE Join(_, _)
Join(ss, sep) ==
  IF ss = <<>> THEN <<>>
  ELSE IF Len(ss) = 1 THEN Head(ss)
  ELSE Head(ss) \o sep \o Join(Tail(ss), sep)

\* ------------------------------------------------------------- characters

\* Non-ASCII characters of a title, by name: e-acute, fullwidth solidus,
\* no-break space, a CJK ideograph, the vulgar fraction one half.
NonAscii == { "E_ACUTE", "FW_SLASH", "NBSP", "CJK", "HALF",
              "COMBINING_ACUTE", "FRACTION_SLASH" }

\* \s
Whitespace == { " ", "\t", "\n" }

\* unicodedata.normalize("NFKD", c) of one character
NFKD(c) ==
  CASE c = "E_ACUTE"  -> << "e", "COMBINING_ACUTE" >>
    [] c = "FW_SLASH" -> << "/" >>
    [] c = "NBSP"     -> << " " >>
    [] c = "HALF"     -> << "1", "FRACTION_SLASH", "2" >>
    [] OTHER          -> << c >>

RECURSIVE Normalize(_)
Normalize(s) == IF s = <<>> THEN <<>> ELSE NFKD(Head(s)) \o Normalize(Tail(s))

\* .encode("ascii", "ignore").decode()
AsciiIgnore(s) == SelectSeq(s, LAMBDA c : c \notin NonAscii)

\* str.lower() of one token.  The characters written by name (NonAscii) are
\* lower-case or caseless, every other token without a capital letter is
\* its own lower case.
LowerToken(t) ==
  CASE t = "Adobe"      -> "adobe"
    [] t = "ADOBE"      -> "adobe"
    [] t = "Acrobat"    -> "acrobat"
    [] t = "PDF"        -> "pdf"
    [] t = ".PDF"       -> ".pdf"
    [] t = ".Pdf"       -> ".pdf"
    [] t = "Download"   -> "download"
    [] t = "DOWNLOAD"   -> "download"
    [] t = "JPEG"       -> "jpeg"
    [] t = "R"          -> "r"
    [] t = "F"          -> "f"
    [] t = "BCG-E8726A" -> "bcg-e8726a"
    [] OTHER            -> t

\* str.lower(), token by token
Lower(s) == [ i \in 1..Len(s) |-> LowerToken(s[i]) ]

\* str.strip()
RECURSIVE LStrip(_)
LStrip(s) ==
  IF s # <<>> /\ Head(s) \in Whitespace THEN LStrip(Tail(s)) ELSE s

RECURSIVE RStrip(_)
RStrip(s) ==
  IF s # <<>> /\ s[Len(s)] \in Whitespace
    THEN RStrip(SubSeq(s, 1, Len(s) - 1)) ELSE s

Strip(s) == RStrip(LStrip(s))

\* ---------------------------------------------------------------- slugify

\* \w on an ASCII string
WordChars == { "a", "e", "x", "h", "i", "b", "t", "R", "F", "1", "2", "_" }

\* The characters re.sub(r"[^\w\s.-]", "", s) keeps.
SlugKeep == WordChars \cup Whitespace \cup { ".", "-" }

\* re.sub(r"\s+", "_", s): every maximal run of whitespace becomes one "_".
RECURSIVE CollapseWs(_)
CollapseWs(s) ==
  IF s = <<>> THEN <<>>
  ELSE IF Head(s) \in Whitespace
    THEN << "_" >> \o CollapseWs(LStrip(s))
    ELSE << Head(s) >> \o CollapseWs(Tail(s))

DefaultSlug == << "e", "x", "h", "i", "b", "i", "t" >>

DefaultMaxLen == 140

\* A faulty variant of slugify: filters and collapses before normalizing, so what
\* NFKD produces is not filtered.
slugify_filter_first(s, maxlen) ==
  LET a == Strip(SelectSeq(s, LAMBDA c : c \in SlugKeep \/ c \in NonAscii))
      b == CollapseWs(a)
      c == AsciiIgnore(Normalize(b))
  IN  Take(IF c = <<>> THEN DefaultSlug ELSE c, maxlen)

slugify(s, maxlen) ==
  LET a == AsciiIgnore(Normalize(s))
      b == Strip(SelectSeq(a, LAMBDA c : c \in SlugKeep))
      c == CollapseWs(b)
  IN  Take(IF c = <<>> THEN DefaultSlug ELSE c, maxlen)

\* ------------------------------------------------------------------- URLs

\* A URL is a sequence of tokens: a scheme-and-host token, then "/", path
\* segments, extensions (".pdf"), "-", runs of digits, "?" and query text.
\* References hold no "." or ".." segment and no fragment.

Origins == { "https://fccid.io", "https://cdn.example" }

Digits == { "8024702", "123", "5" }

Extensions == { ".pdf", ".PDF", ".Pdf", ".php", ".html" }

\* START_URL = "https://fccid.io/BCG-E8726A"
START_URL == << "https://fccid.io", "/", "BCG-E8726A" >>

\* The filing's path segment, "/BCG-E8726A/"
FilingSegment == << "/", "BCG-E8726A", "/" >>

\* Largest i with s[i] = t, 0 when there is none.
LastIndexOf(s, t) ==
  LET hits == { i \in 1..Len(s) : s[i] = t }
  IN  IF hits = {} THEN 0 ELSE CHOOSE i \in hits : \A j \in hits : j <= i

FirstIndexOf(s, t) ==
  LET hits == { i \in 1..Len(s) : s[i] = t }
  IN  IF hits = {} THEN 0 ELSE CHOOSE i \in hits : \A j \in hits : i <= j

\* The URL without its query: scheme, host and path.
NoQuery(u) ==
  IF FirstIndexOf(u, "?") = 0 THEN u ELSE SubSeq(u, 1, FirstIndexOf(u, "?") - 1)

\* urlparse(u).path of an absolute URL
PathOf(u) == Drop(NoQuery(u), 1)

\* A scheme and a host whose bracket is not closed, "http://[x": urlsplit
\* rejects it with ValueError("Invalid IPv6 URL").
MalformedOrigin == "http://[x"

\* urljoin(base, ref) raises ValueError: it parses ref, and ref's host is
\* malformed.
urljoin_raises(ref) == ref # <<>> /\ Head(ref) = MalformedOrigin

\* urllib.parse.urljoin(base, ref), base an absolute URL, when it does not
\* raise
urljoin(base, ref) ==
  IF ref = <<>> THEN base
  ELSE IF Head(ref) \in Origins THEN ref
  ELSE IF Head(ref) = "/" THEN << Head(base) >> \o ref
  ELSE IF Head(ref) = "?" THEN NoQuery(base) \o ref
  ELSE LET b == NoQuery(base)
           k == LastIndexOf(b, "/")
       IN  IF k = 0 THEN b \o << "/" >> \o ref
           ELSE SubSeq(b, 1, k) \o ref

\* str.rstrip("/")
RECURSIVE RStripSlash(_)
RStripSlash(s) ==
  IF s # <<>> /\ s[Len(s)] = "/"
    THEN RStripSlash(SubSeq(s, 1, Len(s) - 1)) ELSE s

\* ---------------------------------------------------------- extract_doc_id

\* os.path.basename(path)
Basename(path) == Drop(path, LastIndexOf(path, "/"))

\* os.path.splitext(base)[0]: the extension is the last token when it is an
\* extension and not the whole name (a leading dot starts no extension).
SplitextRoot(base) ==
  IF Len(base) >= 2 /\ base[Len(base)] \in Extensions
    THEN SubSeq(base, 1, Len(base) - 1) ELSE base

\* DOCID_RE = re.compile(r"-(\d+)\.pdf$", re.I); DOCID_RE.search(u)
DocIdMatch(u) ==
  LET n == Len(u)
  IN  /\ n >= 3
      /\ Lower(<< u[n] >>) = << ".pdf" >>
      /\ u[n - 1] \in Digits
      /\ u[n - 2] = "-"

extract_doc_id(pdf_url) ==
  IF DocIdMatch(pdf_url) THEN << pdf_url[Len(pdf_url) - 1] >>
  ELSE LET base_noext == SplitextRoot(Basename(PathOf(pdf_url)))
       IN  IF base_noext # <<>> /\ base_noext[Len(base_noext)] \in Digits
             THEN << base_noext[Len(base_noext)] >>
             ELSE <<>>

\* ------------------------------------------------------------ parsed pages

\* A parsed page (BeautifulSoup) is the sequence of its nodes in document
\* order.  A node is a Tag (kind "tag": its name, whether it has the href
\* or src attribute, and the attribute's value) or a NavigableString (kind
\* "text").  depth is the node's nesting depth: the descendants of node i
\* are the nodes right after it that lie deeper.

TagNode(name, depth, has, val) ==
  [ kind |-> "tag", name |-> name, depth |-> depth, has |-> has, val |-> val,
    text |-> <<>> ]

TextNode(depth, text) ==
  [ kind |-> "text", name |-> "", depth |-> depth, has |-> FALSE, val |-> <<>>,
    text |-> text ]

\* Index of the last descendant of node i (i itself when it has none).
SubtreeEnd(dom, i) ==
  LET deeper == { j \in (i + 1)..Len(dom) :
                    \A k \in (i + 1)..j : dom[k].depth > dom[i].depth }
  IN  IF deeper = {} THEN i ELSE CHOOSE j \in deeper : \A k \in deeper : k <= j

\* The strings below node i, in document order.
RECURSIVE StringsIn(_, _, _)
StringsIn(dom, from, to) ==
  IF from > to THEN <<>>
  ELSE IF dom[from].kind = "text"
    THEN << dom[from].text >> \o StringsIn(dom, from + 1, to)
    ELSE StringsIn(dom, from + 1, to)

\* tag.get_text(" ", strip=True): the stripped, non-empty strings below the
\* tag, joined by one space.
GetTextStripped(dom, i) ==
  LET raw      == StringsIn(dom, i + 1, SubtreeEnd(dom, i))
      stripped == [ k \in 1..Len(raw) |-> Strip(raw[k]) ]
  IN  Join(SelectSeq(stripped, LAMBDA t : t # <<>>), << " " >>)

\* tag.get_text(): the strings below the tag, concatenated.
GetText(dom, i) == Flatten(StringsIn(dom, i + 1, SubtreeEnd(dom, i)))

\* ---------------------------------------- nearby_text_contains_pdf_marker

window_nodes == 12

\* "adobe acrobat pdf"
Marker == << "adobe", " ", "acrobat", " ", "pdf" >>

IsAnchor(n) == n.kind = "tag" /\ n.name = "a"

\* The nodes the lookahead reads: those of the window_nodes nodes after the
\* anchor that come before the first anchor among them.
LookaheadEnd(dom, a, window) ==
  LET last  == Min(a + window, Len(dom))
      stops == { j \in (a + 1)..last : IsAnchor(dom[j]) }
  IN  IF stops = {} THEN last
      ELSE (CHOOSE j \in stops : \A k \in stops : j <= k) - 1

\* What one node adds to texts.
NodeText(dom, j) ==
  IF dom[j].kind = "tag" THEN GetTextStripped(dom, j) ELSE dom[j].text

nearby_text_contains_pdf_marker(dom, a) ==
  LET last  == LookaheadEnd(dom, a, window_nodes)
      texts == [ k \in 1..(last - a) |-> NodeText(dom, a + k) ]
      blob  == Lower(Join(texts, << " " >>))
  IN  Contains(blob, Marker)

\* ------------------------------------------------------ main: link scanner

\* soup.find_all("a", href=True): the anchors with an href, in order.
AnchorsWithHref(dom) ==
  SelectSeq([ i \in 1..Len(dom) |-> i ],
            LAMBDA i : IsAnchor(dom[i]) /\ dom[i].has)

\* Line 122 raises: urljoin is applied to the href of every anchor, before
\* any test, and one of them is malformed.
scan_raises(dom) ==
  \E k \in 1..Len(AnchorsWithHref(dom)) :
     urljoin_raises(dom[AnchorsWithHref(dom)[k]].val)

\* The test of line 123 on the resolved href.
InFiling(href) ==
  /\ Contains(href, FilingSegment)
  /\ RStripSlash(href) # RStripSlash(START_URL)

\* The title of an anchor: (a.get_text() or "").strip() or "exhibit"
TitleOf(dom, a) ==
  LET t == Strip(GetText(dom, a)) IN IF t = <<>> THEN DefaultSlug ELSE t

\* Whether the anchor at index a is collected.
Qualifies(dom, a) ==
  /\ InFiling(urljoin(START_URL, dom[a].val))
  /\ nearby_text_contains_pdf_marker(dom, a)

\* Lines 120-126: the (href, title) pairs collected from the root page.
CollectExhibitPages(dom) ==
  LET as   == AnchorsWithHref(dom)
      kept == SelectSeq(as, LAMBDA a : Qualifies(dom, a))
  IN  [ k \in 1..Len(kept) |->
          << urljoin(START_URL, dom[kept[k]].val), TitleOf(dom, kept[k]) >> ]

\* A faulty variant of Dedup: keeps the last pair of each URL instead of the first.
RECURSIVE DedupKeepLast(_, _)
DedupKeepLast(pages, seen) ==
  IF pages = <<>> THEN <<>>
  ELSE IF \E k \in 2..Len(pages) : pages[k][1] = Head(pages)[1]
    THEN DedupKeepLast(Tail(pages), seen)
    ELSE << Head(pages) >> \o DedupKeepLast(Tail(pages), seen)

\* Lines 129-134: de-duplicate by URL, keeping the first pair of each URL.
RECURSIVE Dedup(_, _)
Dedup(pages, seen) ==
  IF pages = <<>> THEN <<>>
  ELSE IF Head(pages)[1] \notin seen
    THEN << Head(pages) >> \o Dedup(Tail(pages), seen \cup { Head(pages)[1] })
    ELSE Dedup(Tail(pages), seen)

\* --------------------------------------------------- pick_pdf_from_exhibit

\* The result of a search: found with a URL, or None.
Found(url) == [ found |-> TRUE, url |-> url ]
None == [ found |-> FALSE, url |-> <<>> ]

\* h and h.lower().endswith(".pdf")
IsPdfRef(n) == n.has /\ n.val # <<>> /\ EndsWith(Lower(n.val), << ".pdf" >>)

\* h and "download" in h.lower()
IsDownloadRef(n) ==
  n.has /\ n.val # <<>> /\ Contains(Lower(n.val), << "download" >>)

\* The first of a set of positions in the page, 0 when the set is empty:
\* where soup.find stops, or the loop of lines 56-59.
FirstNode(hits) ==
  IF hits = {} THEN 0 ELSE CHOOSE i \in hits : \A j \in hits : i <= j

\* The positions of the nodes of each kind the resolver looks for.
PdfAnchors(dom) == { i \in 1..Len(dom) : IsAnchor(dom[i]) /\ IsPdfRef(dom[i]) }

DownloadAnchors(dom) ==
  { i \in 1..Len(dom) : IsAnchor(dom[i]) /\ IsDownloadRef(dom[i]) }

IsFrame(n) == n.kind = "tag" /\ n.name \in { "iframe", "embed" }

\* iframe and embed elements whose src ends in ".pdf" or holds "download".
PdfFrames(dom) ==
  { i \in 1..Len(dom) : IsFrame(dom[i]) /\ (IsPdfRef(dom[i]) \/ IsDownloadRef(dom[i])) }

\* A faulty variant of pick_pdf_from_exhibit: one pass taking the first anchor that
\* is either a .pdf link or a download link.
pick_pdf_single_pass(ex_url, dom) ==
  LET a == FirstNode(PdfAnchors(dom) \cup DownloadAnchors(dom))
      f == FirstNode(PdfFrames(dom))
  IN  IF a # 0 THEN Found(urljoin(ex_url, dom[a].val))
      ELSE IF f # 0 THEN Found(urljoin(ex_url, dom[f].val))
      ELSE None

pick_pdf_from_exhibit(ex_url, dom) ==
  LET a1 == FirstNode(PdfAnchors(dom))
      a2 == FirstNode(DownloadAnchors(dom))
      f  == FirstNode(PdfFrames(dom))
  IN  IF a1 # 0 THEN Found(urljoin(ex_url, dom[a1].val))
      ELSE IF a2 # 0 THEN Found(urljoin(ex_url, dom[a2].val))
      ELSE IF f # 0 THEN Found(urljoin(ex_url, dom[f].val))
      ELSE None

\* The element pick_pdf_from_exhibit takes its URL from, 0 when it finds
\* none.
PickedNode(dom) ==
  LET a1 == FirstNode(PdfAnchors(dom))
      a2 == FirstNode(DownloadAnchors(dom))
      f  == FirstNode(PdfFrames(dom))
  IN  IF a1 # 0 THEN a1 ELSE IF a2 # 0 THEN a2 ELSE f

\* Lines 48, 53, 59 raise: urljoin rejects the href or src that was picked.
pick_pdf_raises(dom) ==
  PickedNode(dom) # 0 /\ urljoin_raises(dom[PickedNode(dom)].val)

\* ----------------------------------------------------------------- download

OUTDIR == << "fcc_exhibits", "/" >>

\* Lines 90-93 with the extension taken from the URL's path (a faulty variant of
\* OutPath): os.path.splitext of the path's basename, ".pdf" when empty.
OutPathUrlExt(pdf_url, base_title) ==
  LET docid == extract_doc_id(pdf_url)
      base  == Basename(PathOf(pdf_url))
      ext   == IF Len(base) >= 2 /\ base[Len(base)] \in Extensions
                 THEN << base[Len(base)] >> ELSE << ".pdf" >>
  IN  OUTDIR \o slugify(base_title, DefaultMaxLen)
        \o (IF docid # <<>> THEN << "_" >> \o docid ELSE <<>>) \o ext

\* Lines 90-93: the path download writes to.
OutPath(pdf_url, base_title) ==
  LET docid      == extract_doc_id(pdf_url)
      title_slug == slugify(base_title, DefaultMaxLen)
  IN  OUTDIR \o title_slug
        \o (IF docid # <<>> THEN << "_" >> \o docid ELSE <<>>) \o << ".pdf" >>

\* tmp = out + ".part"
TmpPath(out) == out \o << ".part" >>

\* ------------------------------------------------------------ the network

\* What the host serves.  The root page links two exhibits under the same
\* title, the first exhibit once more, and itself.
RootMarker == TextNode(0, << "Adobe", " ", "Acrobat", " ", "PDF" >>)

RootPage ==
  << TagNode("a", 0, TRUE, << "/", "BCG-E8726A", "/", "e1" >>),
     TextNode(1, << "R", "F" >>), RootMarker,
     TagNode("a", 0, TRUE, << "BCG-E8726A", "/", "e2" >>),
     TextNode(1, << " ", "R", "F", " " >>), RootMarker,
     TagNode("a", 0, TRUE, << "/", "BCG-E8726A", "/", "e1" >>),
     TextNode(1, << "x" >>), RootMarker,
     TagNode("a", 0, TRUE, << "/", "BCG-E8726A", "/" >>),
     TextNode(1, << "h" >>), RootMarker >>

\* A root page that links a file that is no PDF and one exhibit.
OtherRootPage ==
  << TagNode("a", 0, TRUE, << "/", "BCG-E8726A", "/", "e4" >>),
     TextNode(1, << "x" >>), TextNode(0, << "JPEG" >>),
     TagNode("a", 0, TRUE, << "/", "BCG-E8726A", "/", "e3" >>),
     TextNode(1, << "t", "\t", "1" >>), RootMarker >>

\* A root page with no exhibit link.
EmptyRootPage == << TextNode(0, << "x" >>) >>

\* A root page with an exhibit link and a link whose href is malformed.
BadRootPage ==
  << TagNode("a", 0, TRUE, << "/", "BCG-E8726A", "/", "e1" >>),
     TextNode(1, << "R", "F" >>), RootMarker,
     TagNode("a", 0, TRUE, << MalformedOrigin >>),
     TextNode(1, << "x" >>) >>

RootPages == { RootPage, OtherRootPage, EmptyRootPage, BadRootPage }

\* The pages an exhibit URL may serve.
PageRelPdf  == << TagNode("a", 0, TRUE, << "report", "-", "8024702", ".pdf" >>) >>
PageCdnA    == << TagNode("a", 0, TRUE,
                    << "https://cdn.example", "/", "a", "/", "doc", ".pdf" >>) >>
PageCdnB    == << TagNode("a", 0, TRUE,
                    << "https://cdn.example", "/", "b", "/", "doc", ".PDF" >>) >>
PageDownload == << TagNode("iframe", 0, TRUE, << "x", ".html" >>),
                   TagNode("a", 0, TRUE, << "/", "download", ".php" >>) >>
PageNoPdf   == << TagNode("a", 0, TRUE, << "x", ".html" >>) >>

PageBadHref == << TagNode("a", 0, TRUE, << MalformedOrigin, "/", "doc", ".pdf" >>) >>

ExhibitPages ==
  { PageRelPdf, PageCdnA, PageCdnB, PageDownload, PageNoPdf, PageBadHref }

\* The body the host streams for a URL, as the chunks r.iter_content
\* yields; a chunk may be empty.
BodyOf(url) ==
  IF Head(url) = "https://cdn.example"
    THEN IF url[3] = "a" THEN << "a1", "", "a2" >> ELSE << "b1", "b2" >>
    ELSE << "r1" >>

\* len(chunk)
ChunkLen(c) == IF c = "" THEN 0 ELSE 1

RECURSIVE SizeOf(_)
SizeOf(content) ==
  IF content = <<>> THEN 0 ELSE ChunkLen(Head(content)) + SizeOf(Tail(content))

\* What session.head comes to: a requests.RequestException, or a response
\* with a status and a Content-Length header.  The header is absent, empty,
\* a decimal number, a text that is no number, or "sup2", which stands for
\* the one-character string of U+00B2 (superscript two).
ContentLengths == { "absent", "", "1", "2", "x", "sup2" }

HeadStatuses == { 200, 302, 404 }

HeadAnswers ==
  { [ exc |-> TRUE, status |-> 0, cl |-> "absent" ] }
    \cup { [ exc |-> FALSE, status |-> st, cl |-> c ] :
             st \in HeadStatuses, c \in ContentLengths }

\* str.isdigit(): true of decimal digits and of superscript digits alike.
IsDigit(cl) == cl \in { "1", "2", "sup2" }

\* int(cl) raises ValueError: a superscript digit is no decimal literal.
IntRaises(cl) == cl = "sup2"

\* int(cl)
IntOf(cl) == IF cl = "1" THEN 1 ELSE 2

\* Lines 80-82: the response is usable and int(cl) is evaluated.
ReadsLength(h) ==
  /\ ~ h.exc
  /\ 200 <= h.status /\ h.status < 400
  /\ h.cl \notin { "absent", "" }
  /\ IsDigit(h.cl)

\* None, as remote_size returns it.
NoSize == -1

\* remote_size raises: line 83 raises ValueError, which the except clause
\* of line 84 (requests.RequestException) does not catch.
remote_size_raises(h) == ReadsLength(h) /\ IntRaises(h.cl)

\* What remote_size returns when it returns.
remote_size(h) == IF ReadsLength(h) THEN IntOf(h.cl) ELSE NoSize

\* -------------------------------------------------------------- the state

VARIABLES
  pc,             \* where main is: start, loop, head, get, stream, done,
                  \* crashed (an uncaught exception), killed (interrupted)
  run,            \* how many times the program has been started
  ex_pages,       \* main's de-duplicated list of (url, title)
  idx,            \* position in ex_pages of the entry the loop is at
  seen_pdf_urls,  \* main's run-scoped set of resolved PDF URLs
  pdf_url,        \* download's argument
  out,            \* download's computed path
  rsize,          \* what remote_size returned
  sent,           \* number of chunks of the body iter_content has yielded
  fs,             \* the files of OUTDIR: path -> sequence of chunks written
  attempted,      \* history: exhibit URLs fetched in this run, in order
  calls,          \* history: the PDF URLs download was called with, in order
  gets,           \* history: the PDF URLs a GET transfer was issued for
  saved,          \* history: the PDF URLs whose transfer completed in this run
  last,           \* history: how the latest exhibit (or the root fetch) ended
  before,         \* history: the files as download found them
  input,          \* the argument of a function checked on its own
  output          \* its result

vars == << pc, run, ex_pages, idx, seen_pdf_urls, pdf_url, out, rsize, sent,
           fs, attempted, calls, gets, saved, last, before, input, output >>

NoFiles == << >>

Exists(files, path) == path \in DOMAIN files

\* The files with path holding content.
WriteFile(files, path, content) == (path :> content) @@ files

\* The files without path.
RemoveFile(files, path) == [ q \in DOMAIN files \ { path } |-> files[q] ]

\* The state main starts a run in.
StartOfRun ==
  /\ pc = "start"
  /\ ex_pages = <<>>
  /\ idx = 1
  /\ seen_pdf_urls = {}
  /\ pdf_url = <<>>
  /\ out = <<>>
  /\ rsize = NoSize
  /\ sent = 0
  /\ attempted = <<>>
  /\ calls = <<>>
  /\ gets = <<>>
  /\ saved = {}
  /\ last = "none"
  /\ before = NoFiles

Init ==
  /\ StartOfRun
  /\ run = 1
  /\ fs = NoFiles
  /\ input = <<>>
  /\ output = <<>>

\* A faulty variant of NextExhibit: only requests.HTTPError is caught, any other
\* exception ends main.
NextExhibitUncaught(how) ==
  IF how \in { "fetch_error", "resolve_error", "head_error", "stream_failed" }
    THEN pc' = "crashed" /\ idx' = idx /\ last' = how
    ELSE pc' = "loop" /\ idx' = idx + 1 /\ last' = how

\* Lines 140-160: the exhibit is over, normally (return, continue) or by an
\* exception the except clauses catch; the loop moves to the next entry.
NextExhibit(how) ==
  /\ pc' = "loop"
  /\ idx' = idx + 1
  /\ last' = how

\* Line 116 raises: the root page cannot be fetched, main ends uncaught.
FetchRootFail ==
  /\ pc = "start"
  /\ pc' = "crashed"
  /\ last' = "root_error"
  /\ UNCHANGED << run, ex_pages, idx, seen_pdf_urls, pdf_url, out, rsize, sent,
                  fs, attempted, calls, gets, saved, before, input, output >>

\* Lines 116-122: the root page is fetched, the scan raises on a malformed
\* href; nothing catches it, main ends.
ScanRootFail ==
  /\ pc = "start"
  /\ \E page \in RootPages : scan_raises(page)
  /\ pc' = "crashed"
  /\ last' = "scan_error"
  /\ UNCHANGED << run, ex_pages, idx, seen_pdf_urls, pdf_url, out, rsize, sent,
                  fs, attempted, calls, gets, saved, before, input, output >>

\* Lines 116-136: the root page is fetched, scanned and de-duplicated.
FetchRootOk ==
  /\ pc = "start"
  /\ \E page \in RootPages :
       /\ ~ scan_raises(page)
       /\ ex_pages' = Dedup(CollectExhibitPages(page), {})
  /\ pc' = "loop"
  /\ UNCHANGED << run, idx, seen_pdf_urls, pdf_url, out, rsize, sent, fs,
                  attempted, calls, gets, saved, last, before, input, output >>

\* Line 140: the loop is over, main returns.
LoopDone ==
  /\ pc = "loop"
  /\ idx > Len(ex_pages)
  /\ pc' = "done"
  /\ UNCHANGED << run, ex_pages, idx, seen_pdf_urls, pdf_url, out, rsize, sent,
                  fs, attempted, calls, gets, saved, last, before, input, output >>

\* Line 143 raises (a transport error or raise_for_status); lines 157-160
\* catch it.
ExhibitFetchFail ==
  /\ pc = "loop"
  /\ idx <= Len(ex_pages)
  /\ attempted' = Append(attempted, ex_pages[idx][1])
  /\ \E how \in { "fetch_error", "http_error" } : NextExhibit(how)
  /\ UNCHANGED << run, ex_pages, seen_pdf_urls, pdf_url, out, rsize, sent, fs,
                  calls, gets, saved, before, input, output >>

\* Line 144 raises: the page is fetched and pick_pdf_from_exhibit raises on
\* a malformed link; lines 159-160 catch it.
ExhibitResolveFail ==
  /\ pc = "loop"
  /\ idx <= Len(ex_pages)
  /\ \E page \in ExhibitPages : pick_pdf_raises(page)
  /\ attempted' = Append(attempted, ex_pages[idx][1])
  /\ NextExhibit("resolve_error")
  /\ UNCHANGED << run, ex_pages, seen_pdf_urls, pdf_url, out, rsize, sent, fs,
                  calls, gets, saved, before, input, output >>

\* Lines 143-147: the page holds no PDF link.
ExhibitNoPdf ==
  /\ pc = "loop"
  /\ idx <= Len(ex_pages)
  /\ \E page \in ExhibitPages :
       /\ ~ pick_pdf_raises(page)
       /\ ~ pick_pdf_from_exhibit(ex_pages[idx][1], page).found
  /\ attempted' = Append(attempted, ex_pages[idx][1])
  /\ NextExhibit("no_pdf")
  /\ UNCHANGED << run, ex_pages, seen_pdf_urls, pdf_url, out, rsize, sent, fs,
                  calls, gets, saved, before, input, output >>

\* Lines 143-152: the page resolves to a PDF URL already in seen_pdf_urls.
ExhibitSeenPdf ==
  /\ pc = "loop"
  /\ idx <= Len(ex_pages)
  /\ \E page \in ExhibitPages :
       LET r == pick_pdf_from_exhibit(ex_pages[idx][1], page)
       IN  ~ pick_pdf_raises(page) /\ r.found /\ r.url \in seen_pdf_urls
  /\ attempted' = Append(attempted, ex_pages[idx][1])
  /\ NextExhibit("seen_pdf")
  /\ UNCHANGED << run, ex_pages, seen_pdf_urls, pdf_url, out, rsize, sent, fs,
                  calls, gets, saved, before, input, output >>

\* A faulty variant of MarkSeen: the URL is not recorded when download is called.
MarkSeenNever(seen, url) == seen

\* Line 153: seen_pdf_urls.add(pdf_url)
MarkSeen(seen, url) == seen \cup { url }

\* Lines 143-155 and 90-93: the page resolves to a new PDF URL; it is added
\* to seen_pdf_urls and download is called and computes its path.
ExhibitDownload ==
  /\ pc = "loop"
  /\ idx <= Len(ex_pages)
  /\ \E page \in ExhibitPages :
       LET r == pick_pdf_from_exhibit(ex_pages[idx][1], page)
       IN  /\ ~ pick_pdf_raises(page)
           /\ r.found
           /\ r.url \notin seen_pdf_urls
           /\ seen_pdf_urls' = MarkSeen(seen_pdf_urls, r.url)
           /\ pdf_url' = r.url
           /\ out' = OutPath(r.url, ex_pages[idx][2])
           /\ calls' = Append(calls, r.url)
  /\ attempted' = Append(attempted, ex_pages[idx][1])
  /\ before' = fs
  /\ pc' = "head"
  /\ UNCHANGED << run, ex_pages, idx, rsize, sent, fs, gets, saved, last,
                  input, output >>

\* Lines 97-99: a file exists at the path and has the remote size.
SameSize(files, path, size) ==
  /\ Exists(files, path)
  /\ size # NoSize
  /\ SizeOf(files[path]) = size

\* Lines 96-101: the HEAD probe.  remote_size raises, download ends there
\* and lines 159-160 catch the error (rsize is never bound); or it returns,
\* and an identical file is skipped.
HeadProbe ==
  /\ pc = "head"
  /\ \E h \in HeadAnswers :
       IF remote_size_raises(h)
         THEN /\ rsize' = NoSize
              /\ NextExhibit("head_error")
         ELSE /\ rsize' = remote_size(h)
              /\ IF SameSize(fs, out, rsize')
                   THEN NextExhibit("skipped")
                   ELSE pc' = "get" /\ UNCHANGED << idx, last >>
  /\ UNCHANGED << run, ex_pages, seen_pdf_urls, pdf_url, out, sent, fs,
                  attempted, calls, gets, saved, before, input, output >>

\* Lines 104-105 raise: the GET fails or its status is an error; main
\* catches it.
GetFail ==
  /\ pc = "get"
  /\ gets' = Append(gets, pdf_url)
  /\ NextExhibit("get_failed")
  /\ UNCHANGED << run, ex_pages, seen_pdf_urls, pdf_url, out, rsize, sent, fs,
                  attempted, calls, saved, before, input, output >>

\* A faulty variant of StreamTarget: the body is written to the final path.
StreamTargetFinal(path) == path

\* Line 107: the file the chunks are written to.
StreamTarget(path) == TmpPath(path)

\* Lines 104-107: the GET succeeds and the temporary file is opened "wb".
GetOk ==
  /\ pc = "get"
  /\ gets' = Append(gets, pdf_url)
  /\ fs' = WriteFile(fs, StreamTarget(out), <<>>)
  /\ sent' = 0
  /\ pc' = "stream"
  /\ UNCHANGED << run, ex_pages, idx, seen_pdf_urls, pdf_url, out, rsize,
                  attempted, calls, saved, last, before, input, output >>

\* Lines 108-110: one chunk arrives and is written when it is not empty.
StreamChunk ==
  /\ pc = "stream"
  /\ sent < Len(BodyOf(pdf_url))
  /\ LET chunk == BodyOf(pdf_url)[sent + 1]
         tmp   == StreamTarget(out)
         old   == IF Exists(fs, tmp) THEN fs[tmp] ELSE <<>>
     IN  fs' = IF chunk # "" THEN WriteFile(fs, tmp, Append(old, chunk)) ELSE fs
  /\ sent' = sent + 1
  /\ UNCHANGED << pc, run, ex_pages, idx, seen_pdf_urls, pdf_url, out, rsize,
                  attempted, calls, gets, saved, last, before, input, output >>

\* Line 108 raises: the connection breaks while streaming (before the
\* iterator ends); the file is closed, main catches the error.
StreamFail ==
  /\ pc = "stream"
  /\ NextExhibit("stream_failed")
  /\ UNCHANGED << run, ex_pages, seen_pdf_urls, pdf_url, out, rsize, sent, fs,
                  attempted, calls, gets, saved, before, input, output >>

\* The process is interrupted while streaming (KeyboardInterrupt is no
\* Exception: lines 157-160 do not catch it); the file is closed, main ends.
Interrupt ==
  /\ pc = "stream"
  /\ pc' = "killed"
  /\ last' = "interrupted"
  /\ UNCHANGED << run, ex_pages, idx, seen_pdf_urls, pdf_url, out, rsize, sent,
                  fs, attempted, calls, gets, saved, before, input, output >>

\* Lines 111-112: the body is complete; os.replace(tmp, out).
Rename ==
  /\ pc = "stream"
  /\ sent = Len(BodyOf(pdf_url))
  /\ fs' = WriteFile(RemoveFile(fs, TmpPath(out)), out, fs[TmpPath(out)])
  /\ saved' = saved \cup { pdf_url }
  /\ NextExhibit("saved")
  /\ UNCHANGED << run, ex_pages, seen_pdf_urls, pdf_url, out, rsize, sent,
                  attempted, calls, gets, before, input, output >>

\* The program is started again over the same output directory.
Rerun ==
  /\ pc \in { "done", "crashed", "killed" }
  /\ run < MaxRuns
  /\ run' = run + 1
  /\ pc' = "start"
  /\ ex_pages' = <<>>
  /\ idx' = 1
  /\ seen_pdf_urls' = {}
  /\ pdf_url' = <<>>
  /\ out' = <<>>
  /\ rsize' = NoSize
  /\ sent' = 0
  /\ attempted' = <<>>
  /\ calls' = <<>>
  /\ gets' = <<>>
  /\ saved' = {}
  /\ last' = "none"
  /\ before' = NoFiles
  /\ UNCHANGED << fs, input, output >>

Next ==
  \/ FetchRootFail
  \/ ScanRootFail
  \/ FetchRootOk
  \/ LoopDone
  \/ ExhibitFetchFail
  \/ ExhibitResolveFail
  \/ ExhibitNoPdf
  \/ ExhibitSeenPdf
  \/ ExhibitDownload
  \/ HeadProbe
  \/ GetFail
  \/ GetOk
  \/ StreamChunk
  \/ StreamFail
  \/ Interrupt
  \/ Rename
  \/ Rerun

Spec == Init /\ [][Next]_vars

\* ------------------------------------------------ functions on their own

\* The main program's variables while a function is checked on its own.
Idle ==
  /\ run = 1
  /\ ex_pages = <<>>
  /\ idx = 1
  /\ seen_pdf_urls = {}
  /\ pdf_url = <<>>
  /\ out = <<>>
  /\ rsize = NoSize
  /\ sent = 0
  /\ fs = NoFiles
  /\ attempted = <<>>
  /\ calls = <<>>
  /\ gets = <<>>
  /\ saved = {}
  /\ last = "none"
  /\ before = NoFiles

\* The sequences over S of length at most n.
SeqsUpTo(S, n) == UNION { [ 1..k -> S ] : k \in 0..n }

\* ---- slugify

\* Characters of a title: word characters, whitespace, kept and removed
\* punctuation, non-ASCII characters.
SlugChars == { "a", "_", " ", "\t", ".", "-", "/",
               "E_ACUTE", "FW_SLASH", "NBSP", "CJK", "HALF" }

SlugInit ==
  /\ pc = "input"
  /\ Idle
  /\ input \in [ title  : SeqsUpTo(SlugChars, MaxTitleLen),
                 maxlen : (1..MaxLenArg) \cup { DefaultMaxLen } ]
  /\ output = <<>>

Slugify ==
  /\ pc = "input"
  /\ output' = slugify(input.title, input.maxlen)
  /\ pc' = "output"
  /\ UNCHANGED << input, run, ex_pages, idx, seen_pdf_urls, pdf_url, out, rsize,
                  sent, fs, attempted, calls, gets, saved, last, before >>

SlugNext == Slugify

SlugSpec == SlugInit /\ [][SlugNext]_vars

\* ---- pick_pdf_from_exhibit

PageNodes ==
  { TagNode("a", 0, TRUE, << "report", ".pdf" >>),
    TagNode("a", 0, TRUE, << "/", "x", ".PDF" >>),
    TagNode("a", 0, TRUE, << "Download", "/", "123" >>),
    TagNode("a", 0, TRUE, << "x", ".html" >>),
    TagNode("a", 0, FALSE, <<>>),
    TagNode("iframe", 0, TRUE, << "https://cdn.example", "/", "v", ".pdf" >>),
    TagNode("embed", 0, TRUE, << "/", "download", ".php" >>),
    TagNode("iframe", 0, TRUE, << "x", ".html" >>),
    TagNode("embed", 0, FALSE, <<>>) }

ExhibitUrls ==
  { START_URL \o << "/", "e1" >>, START_URL \o << "/", "d", "/", "e2" >> }

ResolveInit ==
  /\ pc = "input"
  /\ Idle
  /\ input \in [ ex_url : ExhibitUrls, html : SeqsUpTo(PageNodes, MaxPageNodes) ]
  /\ output = <<>>

Resolve ==
  /\ pc = "input"
  /\ output' = pick_pdf_from_exhibit(input.ex_url, input.html)
  /\ pc' = "output"
  /\ UNCHANGED << input, run, ex_pages, idx, seen_pdf_urls, pdf_url, out, rsize,
                  sent, fs, attempted, calls, gets, saved, last, before >>

ResolveNext == Resolve

ResolveSpec == ResolveInit /\ [][ResolveNext]_vars

\* ---- the link scanner (lines 119-134)

MarkerText == << "Adobe", " ", "Acrobat", " ", "PDF" >>

\* The text after a link: the marker in one string, the marker over two
\* strings, or another file type.
TypeNodes(form, depth) ==
  CASE form = "whole" -> << TextNode(depth, MarkerText) >>
    [] form = "split" -> << TextNode(depth, << "ADOBE" >>),
                            TextNode(depth, << "acrobat", " ", "pdf" >>) >>
    [] OTHER          -> << TextNode(depth, << "JPEG" >>) >>

Fillers(n, kind, depth) ==
  [ k \in 1..n |-> IF kind = "text" THEN TextNode(depth, << "x" >>)
                   ELSE TagNode("span", depth, FALSE, <<>>) ]

OtherAnchor(depth) ==
  << TagNode("a", depth, TRUE, << "/", "other" >>), TextNode(depth + 1, << "x" >>) >>

\* A root page with one exhibit link, some nodes, and then the file type:
\* right after them ("plain"), after another link ("anchor"), in a table
\* row that starts with another link ("row"), or with the nodes in one
\* table cell ("cell").
WindowPage(href, fill, kind, form, shape) ==
  LET link == << TagNode("a", 0, TRUE, href), TextNode(1, << "R", "F" >>) >>
  IN  CASE shape = "plain" ->
             link \o Fillers(fill, kind, 0) \o TypeNodes(form, 0)
        [] shape = "anchor" ->
             link \o Fillers(fill, kind, 0) \o OtherAnchor(0) \o TypeNodes(form, 0)
        [] shape = "row" ->
             link \o Fillers(fill, kind, 0) \o << TagNode("tr", 0, FALSE, <<>>) >>
               \o OtherAnchor(1) \o TypeNodes(form, 1)
        [] OTHER ->
             link \o << TagNode("td", 0, FALSE, <<>>) >>
               \o Fillers(fill, kind, 1) \o TypeNodes(form, 1)

ScanHrefs ==
  { << "/", "BCG-E8726A", "/", "e1" >>,
    << "e1" >>,
    << "/", "BCG-E8726A", "/" >>,
    << "https://cdn.example", "/", "x" >> }

WindowPages ==
  { WindowPage(h, n, k, f, sh) :
      h \in ScanHrefs, n \in 0..MaxFill, k \in { "text", "tag" },
      f \in { "whole", "split", "none" },
      sh \in { "plain", "anchor", "row", "cell" } }

\* A link of a root page that lists several: its href, its title and
\* whether the marker follows it.
LinkShapes ==
  [ href   : { << "/", "BCG-E8726A", "/", "e1" >>,
               << "https://fccid.io", "/", "BCG-E8726A", "/", "e1" >>,
               << "BCG-E8726A", "/", "e2" >> },
    title  : { << "a" >>, << " ", "b" >> },
    marked : BOOLEAN ]

LinkNodes(l) ==
  << TagNode("a", 0, TRUE, l.href), TextNode(1, l.title) >>
    \o TypeNodes(IF l.marked THEN "whole" ELSE "none", 0)

ListPage(links) == Flatten([ k \in 1..Len(links) |-> LinkNodes(links[k]) ])

ListPages == { ListPage(ls) : ls \in SeqsUpTo(LinkShapes, MaxLinks) }

ScanInit ==
  /\ pc = "input"
  /\ Idle
  /\ input \in WindowPages \cup ListPages
  /\ output = [ exhibit_pages |-> <<>>, ex_pages |-> <<>> ]

\* Lines 120-126
Scan ==
  /\ pc = "input"
  /\ output' = [ output EXCEPT !.exhibit_pages = CollectExhibitPages(input) ]
  /\ pc' = "scanned"
  /\ UNCHANGED << input, run, ex_pages, idx, seen_pdf_urls, pdf_url, out, rsize,
                  sent, fs, attempted, calls, gets, saved, last, before >>

\* Lines 129-134
DedupPages ==
  /\ pc = "scanned"
  /\ output' = [ output EXCEPT !.ex_pages = Dedup(output.exhibit_pages, {}) ]
  /\ pc' = "output"
  /\ UNCHANGED << input, run, ex_pages, idx, seen_pdf_urls, pdf_url, out, rsize,
                  sent, fs, attempted, calls, gets, saved, last, before >>

ScanNext ==
  \/ Scan
  \/ DedupPages

ScanSpec == ScanInit /\ [][ScanNext]_vars

\* ================================================================= claims

InDownload == pc \in { "head", "get", "stream" }

InRun == pc \in { "loop", "head", "get", "stream" }

\* The URLs of ex_pages, in order.
ExUrls == [ k \in 1..Len(ex_pages) |-> ex_pages[k][1] ]

NoRepeats(s) == \A j, k \in 1..Len(s) : s[j] = s[k] => j = k

\* A path download writes a finished file to.
IsFinalPath(path) == path[Len(path)] # ".part"

FinalPaths(files) == { q \in DOMAIN files : IsFinalPath(q) }

\* ---- C1

\* What is left of the run: the entries still to visit, and within the
\* current entry the steps still to take.
C1_Left ==
  CASE pc = "loop"   -> (Len(ex_pages) + 1 - idx) * 10 + 9
    [] pc = "head"   -> (Len(ex_pages) + 1 - idx) * 10 + 8
    [] pc = "get"    -> (Len(ex_pages) + 1 - idx) * 10 + 7
    [] pc = "stream" -> (Len(ex_pages) + 1 - idx) * 10 + 6 - sent
    [] OTHER         -> 0

C1_Visits ==
  /\ pc = "loop" => attempted = SubSeq(ExUrls, 1, idx - 1)
  /\ InDownload => attempted = SubSeq(ExUrls, 1, idx)
  /\ pc = "done" => attempted = ExUrls /\ NoRepeats(attempted)
  /\ InRun => C1_Left >= 0

\* Every step of the loop brings the end of the run nearer and stays in the
\* run: no failure on an exhibit page ends main.
C1_Caught ==
  [][ (InRun /\ pc' # "killed") =>
        /\ C1_Left' < C1_Left
        /\ pc' \in { "loop", "head", "get", "stream", "done" }
        /\ ex_pages' = ex_pages ]_vars

\* C1 (as claimed): once the root page is fetched, every failure on an
\* exhibit page is caught and the loop moves on; every entry of ex_pages is
\* fetched once, in order, and the run ends normally; main ends uncaught
\* only when the fetch of the root page failed.
C1_OnlyRootFetchIsFatal ==
  /\ [](C1_Visits /\ (pc = "crashed" => last = "root_error" /\ attempted = <<>>))
  /\ C1_Caught

\* C1 (amended): once the loop is entered, every failure on an exhibit page
\* is caught and the loop moves on: the exhibit URLs fetched are always the
\* entries of ex_pages before the loop position, each once and in order;
\* every step of a run brings its end nearer and a run that is over has
\* fetched every entry; main ends uncaught only before the loop, when the
\* fetch of the root page failed or when the scan of the fetched root page
\* raised, and then no exhibit page was fetched.  (An interrupt of the
\* process is no failure of an exhibit page and is left aside.)
C1_ErrorsAreCaught ==
  /\ [](C1_Visits /\ (pc = "crashed" =>
                        /\ last \in { "root_error", "scan_error" }
                        /\ attempted = <<>>
                        /\ ex_pages = <<>>))
  /\ C1_Caught

\* A run over two exhibits ended normally although the first exhibit's
\* download broke (the HEAD probe raised, the GET failed or the stream
\* broke) and the second exhibit's page could not be fetched or resolved.
C1_Witness ==
  /\ pc = "done"
  /\ Len(attempted) = 2
  /\ last \in { "fetch_error", "http_error", "resolve_error" }
  /\ Len(calls) = 1
  /\ saved = {}

\* ---- C2

\* C2 (as claimed): a first run over an empty directory in which every
\* call of download completed its transfer ends with one file per PDF URL.
C2_OneFilePerPdf ==
  (pc = "done" /\ run = 1 /\ Range(calls) = saved)
    => Cardinality(FinalPaths(fs)) = Cardinality(saved)

\* ---- C3

\* C3 (as claimed): download skips exactly when a file exists at the path
\* with the size the HEAD probe returned: then no GET is issued, no file is
\* created or changed; in every other case the GET is issued next.
C3_SkipIffSameSize ==
  [][ /\ pc = "head" =>
           IF out \in DOMAIN fs /\ rsize' # NoSize /\ SizeOf(fs[out]) = rsize'
             THEN /\ last' = "skipped"
                  /\ pc' = "loop"
                  /\ fs' = fs
                  /\ gets' = gets
             ELSE pc' = "get"
      /\ pc = "get" => gets' = Append(gets, pdf_url) ]_vars

\* ---- C4

\* The body of a URL as a completed transfer writes it.
CompleteBody(url) == SelectSeq(BodyOf(url), LAMBDA c : c # "")

\* The exhibit URLs a root page can yield and the PDF URLs they can resolve to.
AllExhibitUrls ==
  UNION { { e[1] : e \in Range(CollectExhibitPages(page)) } :
            page \in { r \in RootPages : ~ scan_raises(r) } }

AllPdfUrls ==
  { pick_pdf_from_exhibit(e, page).url :
      << e, page >> \in { x \in AllExhibitUrls \X ExhibitPages :
                           /\ ~ pick_pdf_raises(x[2])
                           /\ pick_pdf_from_exhibit(x[1], x[2]).found } }

Unchanged(files, old, path) ==
  /\ Exists(files, path) <=> Exists(old, path)
  /\ Exists(files, path) => files[path] = old[path]

C4_Files ==
  /\ \A q \in FinalPaths(fs) : \E u \in AllPdfUrls : fs[q] = CompleteBody(u)
  /\ pc = "stream" => /\ Unchanged(fs, before, out)
                      /\ Exists(fs, TmpPath(out))
  /\ (pc = "loop" /\ last = "saved") =>
        /\ ~ Exists(fs, TmpPath(out))
        /\ fs[out] = CompleteBody(pdf_url)
  /\ ((pc = "loop" /\ last = "stream_failed") \/ pc = "killed") =>
        /\ Exists(fs, TmpPath(out))
        /\ Unchanged(fs, before, out)

\* C4: the body is written to the temporary path only and the final path
\* changes only by the rename that follows the last chunk: a final path
\* never holds a partial body; while streaming and after a broken transfer
\* the final path is as download found it and the temporary file exists;
\* after a completed download the temporary file is gone.
C4_TmpThenRename ==
  /\ []C4_Files
  /\ [][ \A q \in FinalPaths(fs) \cup FinalPaths(fs') :
           ~ Unchanged(fs', fs, q) =>
               /\ pc = "stream"
               /\ sent = Len(BodyOf(pdf_url))
               /\ q = out
               /\ fs'[q] = fs[TmpPath(out)] ]_vars

\* A transfer broke after its first chunk: the partial body is in the
\* temporary file and the final path still holds an earlier run's file.
C4_Witness ==
  /\ pc = "loop"
  /\ last = "stream_failed"
  /\ Exists(fs, out)
  /\ fs[TmpPath(out)] # <<>>
  /\ fs[TmpPath(out)] # CompleteBody(pdf_url)

\* ---- C7

C7_Calls ==
  /\ NoRepeats(calls)
  /\ Range(calls) \subseteq seen_pdf_urls
  /\ InDownload => pdf_url \in seen_pdf_urls
  /\ (pc = "loop" /\ last = "seen_pdf") => Len(calls) < Len(attempted)

\* C7: within a run download is called at most once per resolved PDF URL;
\* a URL is in seen_pdf_urls from the moment download is called with it,
\* whatever becomes of the download; the set only grows during a run, and
\* download is called only with a URL that is not yet in it.
C7_OncePerPdfUrl ==
  /\ []C7_Calls
  /\ [][ run' = run =>
           /\ seen_pdf_urls \subseteq seen_pdf_urls'
           /\ calls' # calls => /\ calls' = Append(calls, pdf_url')
                                /\ pdf_url' \notin seen_pdf_urls ]_vars

\* The second exhibit resolved to the URL whose download failed for the
\* first exhibit, and was skipped.
C7_Witness ==
  /\ pc = "loop"
  /\ last = "seen_pdf"
  /\ Len(attempted) = 2
  /\ calls = << pdf_url >>
  /\ gets = << pdf_url >>
  /\ saved = {}

\* ---- C9

\* os.path.splitext(path)[1] of the URL's path, "" when it has none.
UrlExt(url) ==
  LET base == Basename(PathOf(url))
  IN  IF Len(base) >= 2 /\ base[Len(base)] \in Extensions
        THEN << base[Len(base)] >> ELSE <<>>

\* C9 (as claimed): the file's extension is the extension of the resolved
\* URL's path, and ".pdf" when that path has none.
C9_ExtensionFromUrl ==
  InDownload =>
    << out[Len(out)] >> = (IF UrlExt(pdf_url) # <<>> THEN UrlExt(pdf_url)
                           ELSE << ".pdf" >>)

\* C9 (amended): the file's name always ends in ".pdf", whatever the
\* extension of the resolved URL's path; every finished file of the output
\* directory does.
C9_ExtensionAlwaysPdf ==
  /\ InDownload => out[Len(out)] = ".pdf"
  /\ \A q \in FinalPaths(fs) : q[Len(q)] = ".pdf"

\* A file was saved from a URL whose path ends in ".php".
C9_Witness ==
  /\ pc = "loop"
  /\ last = "saved"
  /\ UrlExt(pdf_url) = << ".php" >>
  /\ Exists(fs, out)
  /\ out[Len(out)] = ".pdf"

\* ---- C10

\* The characters of which nothing reaches the slug: those whose
\* compatibility decomposition holds only whitespace, non-ASCII
\* characters and ASCII characters that are no word character, dot or hyphen.
LeavesNothing(c) ==
  \A d \in Range(NFKD(c)) : d \notin WordChars \cup { ".", "-" }

\* C10: the slug holds only word characters, hyphens, dots and underscores,
\* is at most maxlen long and is never empty; it is the default slug (cut to
\* maxlen) when nothing of the title is left.  maxlen is at least 1.
C10_SlugIsSafe ==
  pc = "output" =>
    /\ output # <<>>
    /\ Len(output) <= input.maxlen
    /\ \A c \in Range(output) : c \in WordChars \cup { "-", ".", "_" }
    /\ \A c \in Range(output) : c \notin Whitespace \cup { "/" }
    /\ (\A c \in Range(input.title) : LeavesNothing(c))
         => output = Take(DefaultSlug, input.maxlen)

\* A title of a fullwidth solidus, a no-break space and an ideograph gave
\* the default slug.
C10_Witness ==
  /\ pc = "output"
  /\ input.title = << "FW_SLASH", "NBSP", "CJK" >>
  /\ input.maxlen = DefaultMaxLen
  /\ output = DefaultSlug

\* ---- C6

\* Index of the first element of the page for which ok holds, 0 if none.
C6_First(dom, ok) ==
  IF \E i \in 1..Len(dom) : ok[i]
    THEN CHOOSE i \in 1..Len(dom) : ok[i] /\ \A j \in 1..(i - 1) : ~ ok[j]
    ELSE 0

C6_PdfAnchor(n) ==
  n.kind = "tag" /\ n.name = "a" /\ n.has /\ EndsWith(Lower(n.val), << ".pdf" >>)

C6_DownloadAnchor(n) ==
  n.kind = "tag" /\ n.name = "a" /\ n.has /\ Contains(Lower(n.val), << "download" >>)

C6_Frame(n) ==
  /\ n.kind = "tag" /\ n.name \in { "iframe", "embed" } /\ n.has
  /\ \/ EndsWith(Lower(n.val), << ".pdf" >>)
     \/ Contains(Lower(n.val), << "download" >>)

\* C6: the result is the first anchor whose href ends in ".pdf" if there is
\* one, wherever download anchors and frames stand; else the first anchor
\* whose href contains "download"; else the first iframe or embed whose src
\* ends in ".pdf" or contains "download"; else None.  A result is the match
\* joined to the exhibit page's URL, an absolute URL.
C6_ResolutionPriority ==
  pc = "output" =>
    LET dom == input.html
        p   == C6_First(dom, [ i \in 1..Len(dom) |-> C6_PdfAnchor(dom[i]) ])
        d   == C6_First(dom, [ i \in 1..Len(dom) |-> C6_DownloadAnchor(dom[i]) ])
        f   == C6_First(dom, [ i \in 1..Len(dom) |-> C6_Frame(dom[i]) ])
        m   == IF p # 0 THEN p ELSE IF d # 0 THEN d ELSE f
    IN  /\ output.found <=> m # 0
        /\ output.found =>
             /\ output.url = urljoin(input.ex_url, dom[m].val)
             /\ Head(output.url) \in Origins

\* A page with a frame, then a download anchor, then a .pdf anchor resolved
\* to the .pdf anchor, joined to the exhibit page's URL.
C6_Witness ==
  /\ pc = "output"
  /\ Len(input.html) = 3
  /\ C6_Frame(input.html[1])
  /\ C6_DownloadAnchor(input.html[2])
  /\ C6_PdfAnchor(input.html[3])
  /\ input.html[3].val = << "report", ".pdf" >>
  /\ input.ex_url = START_URL \o << "/", "d", "/", "e2" >>
  /\ output = Found(START_URL \o << "/", "d", "/", "report", ".pdf" >>)

\* ---- C8

C8_Urls(pages) == [ k \in 1..Len(pages) |-> pages[k][1] ]

\* Position in pages of the first pair with this URL.
C8_FirstAt(pages, url) ==
  CHOOSE k \in 1..Len(pages) :
    pages[k][1] = url /\ \A j \in 1..(k - 1) : pages[j][1] # url

\* C8: the list main iterates over holds each URL of the collected links
\* once, with the pair of the first link of that URL, in the order of those
\* first links.
C8_DedupKeepsFirst ==
  pc = "output" =>
    LET raw == output.exhibit_pages
        ded == output.ex_pages
    IN  /\ NoRepeats(C8_Urls(ded))
        /\ Range(C8_Urls(ded)) = Range(C8_Urls(raw))
        /\ \A k \in 1..Len(ded) : ded[k] = raw[C8_FirstAt(raw, ded[k][1])]
        /\ \A j, k \in 1..Len(ded) :
             j < k => C8_FirstAt(raw, ded[j][1]) < C8_FirstAt(raw, ded[k][1])

\* Three links were collected, the first and the third of one URL under
\* different titles: the list holds the first and the second.
C8_Witness ==
  /\ pc = "output"
  /\ Len(output.exhibit_pages) = 3
  /\ output.exhibit_pages[1][1] = output.exhibit_pages[3][1]
  /\ output.exhibit_pages[1][2] # output.exhibit_pages[3][2]
  /\ output.exhibit_pages[2][1] # output.exhibit_pages[1][1]
  /\ output.ex_pages = SubSeq(output.exhibit_pages, 1, 2)

\* ---- C5

\* The strings among the window_nodes nodes after the anchor that come
\* before the next anchor, joined: the text that lies within the window
\* and before any other link.
C5_WindowText(dom, a) ==
  LET lim  == LookaheadEnd(dom, a, window_nodes)
      strs == SelectSeq([ k \in 1..(lim - a) |-> dom[a + k] ],
                        LAMBDA n : n.kind = "text")
  IN  Lower(Join([ k \in 1..Len(strs) |-> strs[k].text ], << " " >>))

\* The anchors the claim includes: in the filing, not the root page, the
\* marker found by the lookahead, and the marker not only beyond the window
\* or after another anchor.
C5_Included(dom, a) ==
  /\ Contains(urljoin(START_URL, dom[a].val), FilingSegment)
  /\ RStripSlash(urljoin(START_URL, dom[a].val)) # RStripSlash(START_URL)
  /\ nearby_text_contains_pdf_marker(dom, a)
  /\ Contains(C5_WindowText(dom, a), Marker)

\* C5 (as claimed): the collected links are exactly the anchors with an
\* href in the filing, other than the root page, whose lookahead text holds
\* the marker; an anchor whose marker lies more than window_nodes nodes
\* after it, or only after another anchor, is not collected.
C5_InclusionIff ==
  pc = "scanned" =>
    LET dom  == input
        kept == SelectSeq(AnchorsWithHref(dom), LAMBDA a : C5_Included(dom, a))
    IN  C8_Urls(output.exhibit_pages)
          = [ k \in 1..Len(kept) |-> urljoin(START_URL, dom[kept[k]].val) ]

====
